---- MODULE Spec2Model ----
(***************************************************************************)
(* Health Tracker: the CLI flow (health_tracker_cli.py) and the Tkinter    *)
(* form (health_tracker_gui.py) over the shared data/health_history.csv.   *)
(*                                                                         *)
(* Text.  A Python str is a tuple of one-character strings, so that        *)
(* strip(), lower(), startswith(), int(), float(), str() and the format    *)
(* specs are computed character by character.  Fixed texts the program     *)
(* never looks into (column names, labels, the date part of a timestamp)   *)
(* are a tuple holding one token.                                          *)
(*                                                                         *)
(* Numbers.  A float is the exact rational [n, d] (d > 0, lowest terms),   *)
(* NaN is [0, 0] and +inf is [1, 0].  Binary rounding error of IEEE        *)
(* doubles, the literals "inf"/"1e3" of float() and overflow/underflow     *)
(* are outside the model.                                                  *)
(***************************************************************************)
EXTENDS Integers, Sequences, FiniteSets, TLC

VARIABLES
    proc,         \* which front end process runs: "none", "gui", "cli"
    dirExists,    \* the data directory exists
    fileExists,   \* os.path.exists(CSV_PATH)
    fileLines,    \* the records of the csv file, each a tuple of cells
    matplotlib_ok,\* MATPLOTLIB_OK of the running GUI process
    form,         \* the tk.StringVars of the form
    result_text,  \* the Results text widget
    status,       \* the status label
    cli,          \* the locals of the CLI main() and its position
    last,         \* what the latest handler/step did: engine call, output
    appended,     \* history: the rows handed to csv.DictWriter.writerow so far
    arg,          \* input of the pure-function specifications
    res           \* output of the pure-function specifications

vars == <<proc, dirExists, fileExists, fileLines, matplotlib_ok, form,
          result_text, status, cli, last, appended, arg, res>>

(* ------------------------------ bounds -------------------------------- *)
MaxRows == 2
MaxBmiMilli == 31000

(* ------------------------------- text --------------------------------- *)
Whitespace == {" ", "\t"}
DigitChars == <<"0", "1", "2", "3", "4", "5", "6", "7", "8", "9">>
UpperChars == <<"A","B","C","D","E","F","G","H","I","J","K","L","M",
                "N","O","P","Q","R","S","T","U","V","W","X","Y","Z">>
LowerChars == <<"a","b","c","d","e","f","g","h","i","j","k","l","m",
                "n","o","p","q","r","s","t","u","v","w","x","y","z">>

\* Python None, where a cell or a value is absent
None == <<"<None>">>

RECURSIVE LStrip(_)
LStrip(s) ==
    IF s = <<>> THEN <<>>
    ELSE IF Head(s) \in Whitespace THEN LStrip(Tail(s)) ELSE s

RECURSIVE RStrip(_)
RStrip(s) ==
    IF s = <<>> THEN <<>>
    ELSE IF s[Len(s)] \in Whitespace THEN RStrip(SubSeq(s, 1, Len(s) - 1)) ELSE s

\* str.strip()
Strip(s) == RStrip(LStrip(s))

LowerChar(c) ==
    IF \E i \in 1..26 : UpperChars[i] = c
    THEN LowerChars[CHOOSE i \in 1..26 : UpperChars[i] = c]
    ELSE c

\* str.lower()
Lower(s) == [i \in 1..Len(s) |-> LowerChar(s[i])]

\* str.startswith(p)
StartsWith(s, p) == Len(s) >= Len(p) /\ SubSeq(s, 1, Len(p)) = p

IsDigit(c) == \E i \in 1..10 : DigitChars[i] = c
DigitVal(c) == (CHOOSE i \in 1..10 : DigitChars[i] = c) - 1
AllDigits(s) == \A i \in 1..Len(s) : IsDigit(s[i])

RECURSIVE NatVal(_)
NatVal(s) == IF s = <<>> THEN 0 ELSE 10 * NatVal(SubSeq(s, 1, Len(s) - 1)) + DigitVal(s[Len(s)])

RECURSIVE NatStr(_)
NatStr(n) == IF n < 10 THEN <<DigitChars[n + 1]>> ELSE NatStr(n \div 10) \o <<DigitChars[(n % 10) + 1]>>

\* str(int)
IntStr(n) == IF n < 0 THEN <<"-">> \o NatStr(-n) ELSE NatStr(n)

(* ------------------------------ numbers ------------------------------- *)
Abs(n) == IF n < 0 THEN -n ELSE n

RECURSIVE GCD(_, _)
GCD(a, b) == IF b = 0 THEN a ELSE GCD(b, a % b)

RECURSIVE Pow10(_)
Pow10(k) == IF k = 0 THEN 1 ELSE 10 * Pow10(k - 1)

Rat(n, d) == LET g == GCD(Abs(n), d) IN [n |-> n \div g, d |-> d \div g]
FromInt(i) == [n |-> i, d |-> 1]
NaN == [n |-> 0, d |-> 0]
Inf == [n |-> 1, d |-> 0]
Zero == FromInt(0)
IsNaN(x) == x.d = 0 /\ x.n = 0
IsFinite(x) == x.d > 0

\* float comparisons: every comparison with NaN is False
Lt(a, b) ==
    IF IsNaN(a) \/ IsNaN(b) THEN FALSE
    ELSE IF a = Inf THEN FALSE
    ELSE IF b = Inf THEN TRUE
    ELSE a.n * b.d < b.n * a.d
Le(a, b) ==
    IF IsNaN(a) \/ IsNaN(b) THEN FALSE
    ELSE IF b = Inf THEN TRUE
    ELSE IF a = Inf THEN FALSE
    ELSE a.n * b.d <= b.n * a.d

\* float arithmetic on finite operands; NaN propagates
Add(a, b) == IF ~IsFinite(a) \/ ~IsFinite(b) THEN NaN ELSE Rat(a.n * b.d + b.n * a.d, a.d * b.d)
Sub(a, b) == IF ~IsFinite(a) \/ ~IsFinite(b) THEN NaN ELSE Rat(a.n * b.d - b.n * a.d, a.d * b.d)
Mul(a, b) == IF ~IsFinite(a) \/ ~IsFinite(b) THEN NaN ELSE Rat(a.n * b.n, a.d * b.d)
Div(a, b) ==
    IF ~IsFinite(a) \/ ~IsFinite(b) THEN NaN
    ELSE IF b.n < 0 THEN Rat(-(a.n * b.d), a.d * (-b.n))
    ELSE Rat(a.n * b.d, a.d * b.n)

\* num/den (num >= 0, den > 0) rounded to the nearest integer, ties to even
RoundHalfEven(num, den) ==
    LET q == num \div den
        r == num % den
    IN  IF 2 * r < den THEN q
        ELSE IF 2 * r > den THEN q + 1
        ELSE IF q % 2 = 0 THEN q ELSE q + 1

\* round(x, nd): the float  (-1)^neg * mag / 10^nd  (round keeps the sign, so -0.3 -> -0.0)
PyRound(x, nd) ==
    IF IsNaN(x) THEN [nan |-> TRUE, neg |-> FALSE, mag |-> 0, nd |-> nd]
    ELSE [nan |-> FALSE, neg |-> x.n < 0,
          mag |-> RoundHalfEven(Abs(x.n) * Pow10(nd), x.d), nd |-> nd]

\* the number a rounded float stands for
DecValue(dec) ==
    IF dec.nan THEN NaN
    ELSE Rat(IF dec.neg THEN -dec.mag ELSE dec.mag, Pow10(dec.nd))

RECURSIVE PadFrac(_, _)
PadFrac(v, nd) == IF nd = 0 THEN <<>> ELSE PadFrac(v \div 10, nd - 1) \o <<DigitChars[(v % 10) + 1]>>

RECURSIVE StripZeros(_)
StripZeros(s) ==
    IF s # <<>> /\ s[Len(s)] = "0" THEN StripZeros(SubSeq(s, 1, Len(s) - 1)) ELSE s

\* str(float) of a rounded float: shortest repr, at least one decimal
StrFloat(dec) ==
    IF dec.nan THEN <<"n", "a", "n">>
    ELSE LET p    == Pow10(dec.nd)
             frac == StripZeros(PadFrac(dec.mag % p, dec.nd))
         IN  (IF dec.neg THEN <<"-">> ELSE <<>>)
             \o NatStr(dec.mag \div p) \o <<".">>
             \o (IF frac = <<>> THEN <<"0">> ELSE frac)

\* f"{x:.<nd>f}"
FormatFixed(x, nd) ==
    LET dec == PyRound(x, nd)
        p   == Pow10(nd)
    IN  IF dec.nan THEN <<"n", "a", "n">>
        ELSE (IF dec.neg THEN <<"-">> ELSE <<>>)
             \o NatStr(dec.mag \div p)
             \o (IF nd = 0 THEN <<>> ELSE <<".">> \o PadFrac(dec.mag % p, nd))

\* index of the first "." of s, 0 if none
DotAt(s) == IF \E i \in 1..Len(s) : s[i] = "."
            THEN CHOOSE i \in 1..Len(s) : s[i] = "." /\ \A j \in 1..(i - 1) : s[j] # "."
            ELSE 0

\* float(s): [ok, v]; ok = FALSE is the ValueError/TypeError
ParseFloat(s) ==
    LET t    == Strip(s)
        sgn  == t # <<>> /\ t[1] \in {"+", "-"}
        body == IF sgn THEN Tail(t) ELSE t
        dot  == DotAt(body)
        ip   == IF dot = 0 THEN body ELSE SubSeq(body, 1, dot - 1)
        fp   == IF dot = 0 THEN <<>> ELSE SubSeq(body, dot + 1, Len(body))
        m    == NatVal(ip) * Pow10(Len(fp)) + NatVal(fp)
    IN  IF Lower(t) = <<"n", "a", "n">> THEN [ok |-> TRUE, v |-> NaN]
        ELSE IF AllDigits(ip) /\ AllDigits(fp) /\ Len(ip) + Len(fp) >= 1
        THEN [ok |-> TRUE, v |-> Rat(IF sgn /\ t[1] = "-" THEN -m ELSE m, Pow10(Len(fp)))]
        ELSE [ok |-> FALSE, v |-> NaN]

\* int(s): [ok, v]; ok = FALSE is the ValueError
ParseInt(s) ==
    LET t    == Strip(s)
        sgn  == t # <<>> /\ t[1] \in {"+", "-"}
        body == IF sgn THEN Tail(t) ELSE t
    IN  IF body # <<>> /\ AllDigits(body)
        THEN [ok |-> TRUE, v |-> IF sgn /\ t[1] = "-" THEN -NatVal(body) ELSE NatVal(body)]
        ELSE [ok |-> FALSE, v |-> 0]

\* what datetime.now() can return: a second of the modelled minute (the local
\* wall clock is not monotonic, so no order is imposed on successive reads)
ClockReadings == {0, 7}

\* datetime.now().strftime("%Y-%m-%d %H:%M:%S") at second t of the modelled minute
DatePrefix == "2026-01-01 00:00:"
Strftime(t) == <<DatePrefix>> \o PadFrac(t, 2)

\* datetime.strptime(s, "%Y-%m-%d %H:%M:%S"): [ok, v]
Strptime(s) ==
    IF Len(s) = 3 /\ s[1] = DatePrefix /\ IsDigit(s[2]) /\ IsDigit(s[3])
       /\ NatVal(<<s[2], s[3]>>) < 60
    THEN [ok |-> TRUE, v |-> NatVal(<<s[2], s[3]>>)]
    ELSE [ok |-> FALSE, v |-> 0]

(* ------------------------- the metrics engine ------------------------- *)
\* cli
cm_to_m(cm) == Div(cm, FromInt(100))

\* cli: [ok, v]; ok = FALSE is ValueError("Height must be > 0")
calculate_bmi(weight_kg, height_m) ==
    IF Le(height_m, Zero) THEN [ok |-> FALSE, v |-> NaN]
    ELSE [ok |-> TRUE, v |-> Div(weight_kg, Mul(height_m, height_m))]

\* bmi_category with <= for < : the boundaries fall into the lower class
bmi_category_cli_le(bmi) ==
    IF Le(bmi, Rat(37, 2)) THEN <<"Underweight">>
    ELSE IF Le(bmi, FromInt(25)) THEN <<"Normal weight">>
    ELSE IF Le(bmi, FromInt(30)) THEN <<"Overweight">>
    ELSE <<"Obese">>

bmi_category_cli(bmi) ==
    IF Lt(bmi, Rat(37, 2)) THEN <<"Underweight">>
    ELSE IF Lt(bmi, FromInt(25)) THEN <<"Normal weight">>
    ELSE IF Lt(bmi, FromInt(30)) THEN <<"Overweight">>
    ELSE <<"Obese">>

calculate_bmr(gender, weight_kg, height_cm, age) ==
    LET base == Sub(Add(Mul(FromInt(10), weight_kg), Mul(Rat(25, 4), height_cm)),
                    FromInt(5 * age))
    IN  IF StartsWith(Lower(Strip(gender)), <<"m">>)
        THEN Add(base, FromInt(5))
        ELSE Sub(base, FromInt(161))

tdee_from_bmr(bmr, activity_multiplier) == Mul(bmr, activity_multiplier)

water_intake_liters(weight_kg) == Mul(weight_kg, Rat(7, 200))

\* gui
CATEGORIES == <<
    <<<<"Underweight">>, Zero, Rat(37, 2)>>,
    <<<<"Normal weight">>, Rat(37, 2), FromInt(25)>>,
    <<<<"Overweight">>, FromInt(25), FromInt(30)>>,
    <<<<"Obese">>, FromInt(30), Inf>> >>

cm_to_m_gui(cm) == Div(cm, FromInt(100))

calculate_bmi_gui(weight_kg, height_m) ==
    IF Le(height_m, Zero) THEN [ok |-> FALSE, v |-> NaN]
    ELSE [ok |-> TRUE, v |-> Div(weight_kg, Mul(height_m, height_m))]

bmi_category_gui(bmi) ==
    LET hits == {i \in 1..Len(CATEGORIES) :
                    Le(CATEGORIES[i][2], bmi) /\ Lt(bmi, CATEGORIES[i][3])}
    IN  IF hits = {} THEN <<"Unknown">>
        ELSE CATEGORIES[CHOOSE i \in hits : \A j \in hits : i <= j][1]

\* calculate_bmr without the lower(): "M" and "Male" fall into the female branch
calculate_bmr_gui_no_lower(gender, weight_kg, height_cm, age) ==
    LET base == Sub(Add(Mul(FromInt(10), weight_kg), Mul(Rat(25, 4), height_cm)),
                    FromInt(5 * age))
    IN  IF StartsWith(Strip(gender), <<"m">>)
        THEN Add(base, FromInt(5))
        ELSE Sub(base, FromInt(161))

calculate_bmr_gui(gender, weight_kg, height_cm, age) ==
    LET base == Sub(Add(Mul(FromInt(10), weight_kg), Mul(Rat(25, 4), height_cm)),
                    FromInt(5 * age))
    IN  IF StartsWith(Lower(Strip(gender)), <<"m">>)
        THEN Add(base, FromInt(5))
        ELSE Sub(base, FromInt(161))

tdee_from_bmr_gui(bmr, activity_multiplier) == Mul(bmr, activity_multiplier)

water_intake_liters_gui(weight_kg) == Mul(weight_kg, Rat(7, 200))

(* --------------------------- the history store ------------------------ *)
\* a dict item of a row: the key, the Python type of the value, the value
Item(key, kind, value) == <<<<key>>, kind, value>>

\* list(row.keys())
Fieldnames(row) == [i \in 1..Len(row) |-> row[i][1]]

\* str(value), as csv.writer writes a cell
CsvStr(item) ==
    IF item[2] = "str" THEN item[3]
    ELSE IF item[2] = "int" THEN IntStr(item[3])
    ELSE StrFloat(item[3])

\* csv.DictWriter(f, fieldnames).writerow(row): the cells in fieldnames order
DictWriter_writerow(fieldnames, row) ==
    [i \in 1..Len(fieldnames) |->
        CsvStr(row[CHOOSE j \in 1..Len(row) : row[j][1] = fieldnames[i]])]

\* save_entry with the file opened in mode "w" instead of "a"
save_entry_truncate(exists, lines, row) ==
    LET fieldnames == Fieldnames(row)
    IN  (IF ~exists THEN <<fieldnames>> ELSE <<>>)
        \o <<DictWriter_writerow(fieldnames, row)>>

\* cli save_entry, lines 63-68: the file after the append
save_entry(exists, lines, row) ==
    LET fieldnames == Fieldnames(row)
    IN  lines \o (IF ~exists THEN <<fieldnames>> ELSE <<>>)
              \o <<DictWriter_writerow(fieldnames, row)>>

\* the append of on_save without the file_exists test: a header every time
on_save_append_always_header(exists, lines, row) ==
    LET fieldnames == Fieldnames(row)
    IN  lines \o <<fieldnames>> \o <<DictWriter_writerow(fieldnames, row)>>

\* gui on_save, lines 259-264: the file after the append
on_save_append(exists, lines, row) ==
    LET fieldnames == Fieldnames(row)
    IN  lines \o (IF ~exists THEN <<fieldnames>> ELSE <<>>)
              \o <<DictWriter_writerow(fieldnames, row)>>

\* one record of csv.DictReader: header keys -> cells, None for a missing
\* cell, the surplus cells under the key None
DictRow(header, line) ==
    LET keys == {header[i] : i \in 1..Len(header)}
              \cup (IF Len(line) > Len(header) THEN {None} ELSE {})
    IN  [k \in keys |->
            IF k = None /\ Len(line) > Len(header)
            THEN SubSeq(line, Len(header) + 1, Len(line))
            ELSE LET i == CHOOSE i \in 1..Len(header) :
                              header[i] = k /\ \A j \in (i + 1)..Len(header) : header[j] # k
                 IN  IF i <= Len(line) THEN line[i] ELSE None]

\* a reader that is given the fieldnames and so takes the first line as data
DictReader_no_header(lines) ==
    IF lines = <<>> THEN <<>>
    ELSE LET data == SelectSeq(lines, LAMBDA l : l # <<>>)
         IN  [i \in 1..Len(data) |-> DictRow(lines[1], data[i])]

\* csv.DictReader(f): the first line is the header, empty lines are skipped
DictReader(lines) ==
    IF lines = <<>> THEN <<>>
    ELSE LET data == SelectSeq(Tail(lines), LAMBDA l : l # <<>>)
         IN  [i \in 1..Len(data) |-> DictRow(lines[1], data[i])]

\* dict.get(key, default)
Get(r, key, default) == IF key \in DOMAIN r THEN r[key] ELSE default

(* ------------------------------- the GUI ------------------------------ *)
Sedentary == <<"Sedentary (little/no exercise)">>
Light == <<"Light (1-3 days/wk)">>
Moderate == <<"Moderate (3-5 days/wk)">>
Active == <<"Active (6-7 days/wk)">>
VeryActive == <<"Very Active (hard exercise)">>

\* gui ACTIVITY_LEVELS: label -> multiplier
ACTIVITY_LEVELS_gui ==
    <<<<Sedentary, Rat(6, 5)>>, <<Light, Rat(11, 8)>>, <<Moderate, Rat(31, 20)>>,
      <<Active, Rat(69, 40)>>, <<VeryActive, Rat(19, 10)>>>>

Multipliers == {ACTIVITY_LEVELS_gui[i][2] : i \in 1..Len(ACTIVITY_LEVELS_gui)}

\* the StringVars as _build_ui creates them and on_clear resets them
FormDefaults ==
    [name_var |-> <<>>, age_var |-> <<>>, gender_var |-> <<"Female">>,
     height_var |-> <<>>, height_unit_var |-> <<"cm">>, weight_var |-> <<>>,
     activity_var |-> ACTIVITY_LEVELS_gui[2][1]]

\* what the user can have typed and selected
FormInputs ==
    { [name_var |-> <<"A", "l", " ">>, age_var |-> <<"3", "0">>, gender_var |-> <<"Male">>,
       height_var |-> <<"1", "7", "5", ".", "5">>, height_unit_var |-> <<"cm">>,
       weight_var |-> <<"7", "0", ".", "2", "5">>, activity_var |-> Moderate],
      [name_var |-> <<>>, age_var |-> <<"3", "0">>, gender_var |-> <<"Female">>,
       height_var |-> <<"n", "a", "n">>, height_unit_var |-> <<"m">>,
       weight_var |-> <<"6", "4">>, activity_var |-> Light],
      [name_var |-> <<>>, age_var |-> <<"3", "0">>, gender_var |-> <<"Female">>,
       height_var |-> <<"0">>, height_unit_var |-> <<"cm">>,
       weight_var |-> <<"6", "4">>, activity_var |-> Light],
      [name_var |-> <<>>, age_var |-> <<"3", "0">>, gender_var |-> <<"Male">>,
       height_var |-> <<"1", ".", "6">>, height_unit_var |-> <<"m">>,
       weight_var |-> <<"x">>, activity_var |-> VeryActive] }

ErrAge == <<"Enter valid integer for Age.">>
ErrHeight == <<"Enter valid number for Height.">>
ErrWeight == <<"Enter valid number for Weight.">>
ErrRange == <<"Age, Height and Weight must be > 0">>
ErrActivity == <<"KeyError">>

\* _parse_inputs: ok = FALSE is the raised exception, msg its text
parse_inputs(f) ==
    LET age      == ParseInt(f.age_var)
        height   == ParseFloat(f.height_var)
        weight   == ParseFloat(f.weight_var)
        height_m == IF f.height_unit_var = <<"cm">> THEN cm_to_m_gui(height.v) ELSE height.v
        height_cm == IF f.height_unit_var = <<"cm">> THEN height.v
                     ELSE Mul(height.v, FromInt(100))
        levels   == {i \in 1..Len(ACTIVITY_LEVELS_gui) :
                        ACTIVITY_LEVELS_gui[i][1] = f.activity_var}
        fail(m)  == [ok |-> FALSE, msg |-> m, name |-> <<>>, age |-> 0, gender |-> <<>>,
                     height_m |-> NaN, height_cm |-> NaN, weight |-> NaN,
                     activity_multiplier |-> NaN]
    IN  IF ~age.ok THEN fail(ErrAge)
        ELSE IF ~height.ok THEN fail(ErrHeight)
        ELSE IF ~weight.ok THEN fail(ErrWeight)
        ELSE IF levels = {} THEN fail(ErrActivity)
        ELSE IF age.v <= 0 \/ Le(height_m, Zero) \/ Le(weight.v, Zero) THEN fail(ErrRange)
        ELSE [ok |-> TRUE, msg |-> <<>>, name |-> Strip(f.name_var), age |-> age.v,
              gender |-> f.gender_var, height_m |-> height_m, height_cm |-> height_cm,
              weight |-> weight.v,
              activity_multiplier |-> ACTIVITY_LEVELS_gui[CHOOSE i \in levels : TRUE][2]]

\* on_calculate 193-197 / on_save 239-243: the five engine calls
gui_metrics(p) ==
    LET bmi == calculate_bmi_gui(p.weight, p.height_m)
        bmr == calculate_bmr_gui(p.gender, p.weight, p.height_cm, p.age)
    IN  [ok |-> bmi.ok, bmi |-> bmi.v, cat |-> bmi_category_gui(bmi.v), bmr |-> bmr,
         tdee |-> tdee_from_bmr_gui(bmr, p.activity_multiplier),
         water_l |-> water_intake_liters_gui(p.weight)]

\* the arguments a front end hands to the engine
EngineArgs(age, height_m, weight, mult) ==
    [called |-> TRUE, age |-> age, height_m |-> height_m, weight |-> weight, mult |-> mult]

\* _show_results: the values interpolated into the result lines
\* (name, age, gender, height, weight, bmi, category, bmr, tdee, water)
show_results(p, m) ==
    <<p.name, IntStr(p.age), p.gender, FormatFixed(p.height_cm, 1),
      FormatFixed(p.weight, 1), FormatFixed(m.bmi, 2), m.cat, FormatFixed(m.bmr, 0),
      FormatFixed(m.tdee, 0), FormatFixed(m.water_l, 2)>>

\* a row built from what the Results box shows instead of from the form
on_save_row_stale(p, m, t) ==
    LET shown(i) == IF result_text = <<>> THEN Zero ELSE ParseFloat(result_text[i]).v
    IN  << Item("timestamp", "str", Strftime(t)),
           Item("name", "str", p.name),
           Item("age", "int", p.age),
           Item("gender", "str", p.gender),
           Item("height_cm", "float", PyRound(p.height_cm, 1)),
           Item("weight_kg", "float", PyRound(p.weight, 1)),
           Item("bmi", "float", PyRound(shown(6), 2)),
           Item("category", "str", IF result_text = <<>> THEN <<>> ELSE result_text[7]),
           Item("bmr", "float", PyRound(shown(8), 0)),
           Item("tdee", "float", PyRound(shown(9), 0)),
           Item("water_l", "float", PyRound(shown(10), 2)) >>

\* on_save 245-257: the row dict
on_save_row(p, m, t) ==
    << Item("timestamp", "str", Strftime(t)),
       Item("name", "str", p.name),
       Item("age", "int", p.age),
       Item("gender", "str", p.gender),
       Item("height_cm", "float", PyRound(p.height_cm, 1)),
       Item("weight_kg", "float", PyRound(p.weight, 1)),
       Item("bmi", "float", PyRound(m.bmi, 2)),
       Item("category", "str", m.cat),
       Item("bmr", "float", PyRound(m.bmr, 0)),
       Item("tdee", "float", PyRound(m.tdee, 0)),
       Item("water_l", "float", PyRound(m.water_l, 2)) >>

\* on_view_history 278: the columns of the table
cols ==
    <<<<"timestamp">>, <<"name">>, <<"age">>, <<"gender">>, <<"height_cm">>,
      <<"weight_kg">>, <<"bmi">>, <<"category">>, <<"bmr">>, <<"tdee">>, <<"water_l">>>>

\* on_view_history 285-288: the rows inserted into the Treeview
history_rows(lines) ==
    LET reader == DictReader(lines)
    IN  [i \in 1..Len(reader) |-> [c \in 1..Len(cols) |-> Get(reader[i], cols[c], <<>>)]]

\* on_show_chart 302-307: the loop over the reader from record i on; the two
\* appends of the try block take effect one after the other
RECURSIVE chart_loop(_, _, _, _)
chart_loop(reader, i, timestamps, bmis) ==
    IF i > Len(reader) THEN [timestamps |-> timestamps, bmis |-> bmis]
    ELSE LET r   == reader[i]
             ts  == IF <<"timestamp">> \in DOMAIN r
                    THEN Strptime(r[<<"timestamp">>]) ELSE [ok |-> FALSE, v |-> 0]
             bmi == IF <<"bmi">> \in DOMAIN r
                    THEN ParseFloat(r[<<"bmi">>]) ELSE [ok |-> FALSE, v |-> NaN]
         IN  IF ~ts.ok THEN chart_loop(reader, i + 1, timestamps, bmis)
             ELSE IF ~bmi.ok THEN chart_loop(reader, i + 1, Append(timestamps, ts.v), bmis)
             ELSE chart_loop(reader, i + 1, Append(timestamps, ts.v), Append(bmis, bmi.v))

NoEngine == [called |-> FALSE, age |-> 0, height_m |-> Zero, weight |-> Zero, mult |-> Zero]
Did(op, engine, shown) == [op |-> op, engine |-> engine, shown |-> shown]

CliIdle ==
    [pc |-> "idle", name |-> <<>>, age |-> 0, gender |-> <<>>, unit |-> <<>>,
     height_m |-> Zero, height_cm |-> Zero, weight |-> Zero, act_label |-> <<>>,
     bmi |-> Zero, cat |-> <<>>, bmr |-> Zero, tdee |-> Zero, water_l |-> Zero]

\* python health_tracker_gui.py: ensure_data_dir(), HealthTrackerApp()
LaunchGui ==
    /\ proc = "none"
    /\ proc' = "gui"
    /\ dirExists' = TRUE
    /\ matplotlib_ok' \in BOOLEAN
    /\ form' = FormDefaults
    /\ result_text' = <<>>
    /\ status' = "Fill the form and click Calculate."
    /\ last' = Did("launch_gui", NoEngine, <<>>)
    /\ UNCHANGED <<fileExists, fileLines, cli, appended, arg, res>>

\* the window is closed: mainloop returns and the process ends
CloseGui ==
    /\ proc = "gui"
    /\ proc' = "none"
    /\ form' = FormDefaults
    /\ result_text' = <<>>
    /\ status' = ""
    /\ matplotlib_ok' = FALSE
    /\ last' = Did("close_gui", NoEngine, <<>>)
    /\ UNCHANGED <<dirExists, fileExists, fileLines, cli, appended, arg, res>>

\* the user fills the form
EditForm ==
    /\ proc = "gui"
    /\ \E f \in FormInputs : form' = f
    /\ last' = Did("edit", NoEngine, <<>>)
    /\ UNCHANGED <<proc, dirExists, fileExists, fileLines, matplotlib_ok,
                   result_text, status, cli, appended, arg, res>>

on_calculate ==
    /\ proc = "gui"
    /\ \E p \in {parse_inputs(form)} :
          IF ~p.ok
          THEN /\ last' = Did("on_calculate", NoEngine, <<"showerror", "Invalid Input", p.msg>>)
               /\ UNCHANGED <<result_text, status>>
          ELSE \E m \in {gui_metrics(p)} :
                  LET e == EngineArgs(p.age, p.height_m, p.weight, p.activity_multiplier)
                  IN  IF ~m.ok
                      THEN /\ last' = Did("on_calculate", e, <<"raise", "ValueError">>)
                           /\ UNCHANGED <<result_text, status>>
                      ELSE /\ result_text' = show_results(p, m)
                           /\ status' = "Calculated. Click Save Entry to save."
                           /\ last' = Did("on_calculate", e, <<>>)
    /\ UNCHANGED <<proc, dirExists, fileExists, fileLines, matplotlib_ok, form,
                   cli, appended, arg, res>>

on_clear ==
    /\ proc = "gui"
    /\ form' = FormDefaults
    /\ result_text' = <<>>
    /\ status' = "Cleared."
    /\ last' = Did("on_clear", NoEngine, <<>>)
    /\ UNCHANGED <<proc, dirExists, fileExists, fileLines, matplotlib_ok,
                   cli, appended, arg, res>>

\* on_save with the file opened for append before the inputs are parsed
on_save_open_first ==
    /\ proc = "gui"
    /\ dirExists' = TRUE
    /\ fileExists' = TRUE
    /\ \E p \in {parse_inputs(form)} :
          IF ~p.ok
          THEN /\ last' = Did("on_save", NoEngine, <<"showerror", "Invalid Input", p.msg>>)
               /\ UNCHANGED <<fileLines, appended, status>>
          ELSE \E m \in {gui_metrics(p)} :
               \E t \in ClockReadings : \E row \in {on_save_row(p, m, t)} :
                  /\ m.ok
                  /\ Len(fileLines) <= MaxRows
                  /\ fileLines' = on_save_append(fileExists, fileLines, row)
                  /\ appended' = Append(appended, row)
                  /\ status' = "Saved to data/health_history.csv"
                  /\ last' = Did("on_save",
                                 EngineArgs(p.age, p.height_m, p.weight, p.activity_multiplier),
                                 <<"showinfo", "Saved">>)
    /\ UNCHANGED <<proc, matplotlib_ok, form, result_text, cli, arg, res>>

on_save ==
    /\ proc = "gui"
    /\ dirExists' = TRUE
    /\ \E p \in {parse_inputs(form)} :
          IF ~p.ok
          THEN /\ last' = Did("on_save", NoEngine, <<"showerror", "Invalid Input", p.msg>>)
               /\ UNCHANGED <<fileExists, fileLines, appended, status>>
          ELSE \E m \in {gui_metrics(p)} :
               \E t \in ClockReadings : \E row \in {on_save_row(p, m, t)} :
                  LET e == EngineArgs(p.age, p.height_m, p.weight, p.activity_multiplier)
                  IN  IF ~m.ok
                      THEN /\ last' = Did("on_save", e, <<"raise", "ValueError">>)
                           /\ UNCHANGED <<fileExists, fileLines, appended, status>>
                      ELSE /\ Len(fileLines) <= MaxRows
                           /\ fileLines' = on_save_append(fileExists, fileLines, row)
                           /\ fileExists' = TRUE
                           /\ appended' = Append(appended, row)
                           /\ status' = "Saved to data/health_history.csv"
                           /\ last' = Did("on_save", e, <<"showinfo", "Saved">>)
    /\ UNCHANGED <<proc, matplotlib_ok, form, result_text, cli, arg, res>>

on_view_history ==
    /\ proc = "gui"
    /\ IF ~fileExists
       THEN last' = Did("on_view_history", NoEngine, <<"showinfo", "No Data">>)
       ELSE last' = Did("on_view_history", NoEngine, <<"table", history_rows(fileLines)>>)
    /\ UNCHANGED <<proc, dirExists, fileExists, fileLines, matplotlib_ok, form,
                   result_text, status, cli, appended, arg, res>>

\* the Show BMI Chart button is disabled unless MATPLOTLIB_OK (141-142)
on_show_chart ==
    /\ proc = "gui"
    /\ matplotlib_ok
    /\ LET series == chart_loop(DictReader(fileLines), 1, <<>>, <<>>)
       IN  IF ~matplotlib_ok
           THEN last' = Did("on_show_chart", NoEngine, <<"showerror", "Matplotlib Missing">>)
           ELSE IF ~fileExists
           THEN last' = Did("on_show_chart", NoEngine, <<"showinfo", "No Data">>)
           ELSE IF series.timestamps = <<>>
           THEN last' = Did("on_show_chart", NoEngine, <<"showinfo", "No Data">>)
           ELSE last' = Did("on_show_chart", NoEngine,
                            <<"plot", series.timestamps, series.bmis>>)
    /\ UNCHANGED <<proc, dirExists, fileExists, fileLines, matplotlib_ok, form,
                   result_text, status, cli, appended, arg, res>>

(* ------------------------------- the CLI ------------------------------ *)
\* cli ACTIVITY_LEVELS: key -> (label, multiplier)
ACTIVITY_LEVELS ==
    <<<<<<"1">>, Sedentary, Rat(6, 5)>>, <<<<"2">>, Light, Rat(11, 8)>>,
      <<<<"3">>, Moderate, Rat(31, 20)>>, <<<<"4">>, Active, Rat(69, 40)>>,
      <<<<"5">>, VeryActive, Rat(19, 10)>>>>

\* what the user can type at the prompts
NameInputs == {<<"B", "o", " ">>}
AgeInputs == {<<"0">>, <<"a", "b", "c">>, <<"2", "5">>}
GenderInputs == {<<>>}
UnitInputs == {<<" ", "C", "M">>, <<"f", "t">>}
HeightInputs == {<<"0">>, <<"1", "8", "0">>}
WeightInputs == {<<"x">>, <<"8", "0">>}
ActivityInputs == {<<"9">>, <<"3">>}
SaveInputs == {<<"Y">>, <<"n">>}

\* one round of prompt_float's loop on the typed text: ok = FALSE prompts again
prompt_float(typed, allow_zero) ==
    LET val == ParseFloat(Strip(typed))
    IN  IF ~val.ok THEN [ok |-> FALSE, v |-> NaN]
        ELSE IF ~allow_zero /\ Le(val.v, Zero) THEN [ok |-> FALSE, v |-> NaN]
        ELSE [ok |-> TRUE, v |-> val.v]

\* one round of prompt_int's loop on the typed text: ok = FALSE prompts again
prompt_int(typed) ==
    LET val == ParseInt(Strip(typed))
    IN  IF ~val.ok THEN [ok |-> FALSE, v |-> 0]
        ELSE IF val.v <= 0 THEN [ok |-> FALSE, v |-> 0]
        ELSE [ok |-> TRUE, v |-> val.v]

\* main 146-159: the row dict
main_row(c, t) ==
    << Item("timestamp", "str", Strftime(t)),
       Item("name", "str", c.name),
       Item("age", "int", c.age),
       Item("gender", "str", c.gender),
       Item("height_cm", "float", PyRound(c.height_cm, 1)),
       Item("weight_kg", "float", PyRound(c.weight, 1)),
       Item("bmi", "float", PyRound(c.bmi, 2)),
       Item("category", "str", c.cat),
       Item("bmr", "float", PyRound(c.bmr, 0)),
       Item("tdee", "float", PyRound(c.tdee, 0)),
       Item("water_l", "float", PyRound(c.water_l, 2)),
       Item("activity", "str", c.act_label) >>

CliFrame == <<proc, dirExists, fileExists, fileLines, matplotlib_ok, form,
              result_text, status, appended, arg, res>>
CliNoStore == <<dirExists, fileExists, fileLines, matplotlib_ok, form,
                result_text, status, appended, arg, res>>

\* python health_tracker_cli.py: main() up to the Age prompt (94-95)
main_name ==
    /\ proc = "none"
    /\ proc' = "cli"
    /\ \E typed \in NameInputs :
          cli' = [CliIdle EXCEPT !.pc = "age", !.name = Strip(typed)]
    /\ last' = Did("main_name", NoEngine, <<>>)
    /\ UNCHANGED CliNoStore

\* main 96: prompt_int("Age (years): "), one round
main_age ==
    /\ proc = "cli" /\ cli.pc = "age"
    /\ \E typed \in AgeInputs :
          LET a == prompt_int(typed)
          IN  IF a.ok
              THEN /\ cli' = [cli EXCEPT !.pc = "gender", !.age = a.v]
                   /\ last' = Did("main_age", NoEngine, <<>>)
              ELSE /\ cli' = cli
                   /\ last' = Did("main_age", NoEngine, <<"print", "Try again">>)
    /\ UNCHANGED CliFrame

\* main 97
main_gender ==
    /\ proc = "cli" /\ cli.pc = "gender"
    /\ \E typed \in GenderInputs :
          cli' = [cli EXCEPT !.pc = "unit",
                             !.gender = IF Strip(typed) = <<>> THEN <<"F">> ELSE Strip(typed)]
    /\ last' = Did("main_gender", NoEngine, <<>>)
    /\ UNCHANGED CliFrame

\* main 100-104, one round
main_unit ==
    /\ proc = "cli" /\ cli.pc = "unit"
    /\ \E typed \in UnitInputs :
          LET unit == IF Lower(Strip(typed)) = <<>> THEN <<"c", "m">> ELSE Lower(Strip(typed))
          IN  IF unit \in {<<"c", "m">>, <<"m">>}
              THEN /\ cli' = [cli EXCEPT !.pc = "height", !.unit = unit]
                   /\ last' = Did("main_unit", NoEngine, <<>>)
              ELSE /\ cli' = cli
                   /\ last' = Did("main_unit", NoEngine, <<"print", "Please enter 'cm' or 'm'.">>)
    /\ UNCHANGED CliFrame

\* main 106-112: prompt_float for the height, one round, and the conversion
main_height ==
    /\ proc = "cli" /\ cli.pc = "height"
    /\ \E typed \in HeightInputs :
          LET h == prompt_float(typed, FALSE)
          IN  IF h.ok
              THEN /\ cli' = [cli EXCEPT !.pc = "weight",
                                 !.height_m = IF cli.unit = <<"c", "m">> THEN cm_to_m(h.v) ELSE h.v,
                                 !.height_cm = IF cli.unit = <<"c", "m">> THEN h.v
                                               ELSE Mul(h.v, FromInt(100))]
                   /\ last' = Did("main_height", NoEngine, <<>>)
              ELSE /\ cli' = cli
                   /\ last' = Did("main_height", NoEngine, <<"print", "Try again">>)
    /\ UNCHANGED CliFrame

\* main 114: prompt_float for the weight, one round
main_weight ==
    /\ proc = "cli" /\ cli.pc = "weight"
    /\ \E typed \in WeightInputs :
          LET w == prompt_float(typed, FALSE)
          IN  IF w.ok
              THEN /\ cli' = [cli EXCEPT !.pc = "activity", !.weight = w.v]
                   /\ last' = Did("main_weight", NoEngine, <<>>)
              ELSE /\ cli' = cli
                   /\ last' = Did("main_weight", NoEngine, <<"print", "Try again">>)
    /\ UNCHANGED CliFrame

\* main 116-142: the activity choice, the calculations and the printed results
main_activity ==
    /\ proc = "cli" /\ cli.pc = "activity"
    /\ \E typed \in ActivityInputs :
          LET known == {i \in 1..Len(ACTIVITY_LEVELS) : ACTIVITY_LEVELS[i][1] = Strip(typed)}
              act   == IF known = {} THEN 2 ELSE CHOOSE i \in known : TRUE
              act_label == ACTIVITY_LEVELS[act][2]
              act_mul   == ACTIVITY_LEVELS[act][3]
              bmi   == calculate_bmi(cli.weight, cli.height_m)
              cat   == bmi_category_cli(bmi.v)
              bmr   == calculate_bmr(cli.gender, cli.weight, cli.height_cm, cli.age)
              tdee  == tdee_from_bmr(bmr, act_mul)
              water_l == water_intake_liters(cli.weight)
              e     == EngineArgs(cli.age, cli.height_m, cli.weight, act_mul)
          IN  IF ~bmi.ok
              THEN /\ cli' = CliIdle
                   /\ proc' = "none"
                   /\ last' = Did("main_activity", e, <<"raise", "ValueError">>)
              ELSE /\ cli' = [cli EXCEPT !.pc = "save", !.act_label = act_label,
                                 !.bmi = bmi.v, !.cat = cat, !.bmr = bmr, !.tdee = tdee,
                                 !.water_l = water_l]
                   /\ proc' = proc
                   /\ last' = Did("main_activity", e,
                                  <<"print", cli.name, IntStr(cli.age), cli.gender,
                                    FormatFixed(cli.height_cm, 1), FormatFixed(cli.weight, 1),
                                    FormatFixed(bmi.v, 2), cat, FormatFixed(bmr, 0),
                                    FormatFixed(tdee, 0), FormatFixed(water_l, 2)>>)
    /\ UNCHANGED CliNoStore

\* main 144-162: the save question, save_entry, and the end of the process
main_save ==
    /\ proc = "cli" /\ cli.pc = "save"
    /\ \E typed \in SaveInputs : \E t \in ClockReadings :
          LET row == main_row(cli, t)
          IN  IF Lower(Strip(typed)) = <<"y">>
              THEN /\ Len(fileLines) <= MaxRows
                   /\ dirExists' = TRUE
                   /\ fileLines' = save_entry(fileExists, fileLines, row)
                   /\ fileExists' = TRUE
                   /\ appended' = Append(appended, row)
                   /\ last' = Did("main_save", NoEngine, <<"print", "Saved">>)
              ELSE /\ UNCHANGED <<dirExists, fileExists, fileLines, appended>>
                   /\ last' = Did("main_save", NoEngine, <<"print", "Not saved. Bye!">>)
    /\ proc' = "none"
    /\ cli' = CliIdle
    /\ UNCHANGED <<matplotlib_ok, form, result_text, status, arg, res>>

(* -------------------------- the specifications ------------------------ *)
NoProcess ==
    /\ proc = "none"
    /\ matplotlib_ok = FALSE
    /\ form = FormDefaults
    /\ result_text = <<>>
    /\ status = ""
    /\ cli = CliIdle
    /\ last = Did("init", NoEngine, <<>>)
    /\ appended = <<>>

\* a fresh checkout: no data directory, no history file, no process running
Fresh ==
    /\ NoProcess
    /\ dirExists = FALSE
    /\ fileExists = FALSE
    /\ fileLines = <<>>

Init ==
    /\ Fresh
    /\ arg = <<>>
    /\ res = <<>>

Next ==
    \/ LaunchGui \/ CloseGui \/ EditForm
    \/ on_calculate \/ on_clear \/ on_save \/ on_view_history \/ on_show_chart
    \/ main_name \/ main_age \/ main_gender \/ main_unit \/ main_height
    \/ main_weight \/ main_activity \/ main_save

Spec == Init /\ [][Next]_vars

\* a history file that is already there when the programs start: rows as the
\* GUI writes them, and rows a person or another tool has damaged
StoreGood ==
    <<Strftime(0), <<>>, <<"3", "0">>, <<"Female">>, <<"1", "6", "0", ".", "0">>,
      <<"6", "4", ".", "0">>, <<"2", "5", ".", "0">>, <<"Overweight">>,
      <<"1", "3", "2", "9", ".", "0">>, <<"1", "8", "2", "7", ".", "0">>,
      <<"2", ".", "2", "4">>>>
StoreBadBmi == [StoreGood EXCEPT ![7] = <<"a", "b", "c">>]
StoreBadTimestamp == [StoreGood EXCEPT ![1] = <<"yesterday">>]
StoreShort == <<Strftime(0), <<"x">>>>
StoreSamples ==
    { <<cols, StoreBadBmi, StoreGood>>,
      <<cols, StoreShort, StoreGood>>,
      <<cols, StoreBadTimestamp, StoreGood>>,
      <<cols, StoreBadBmi>> }

InitStore ==
    /\ NoProcess
    /\ dirExists = TRUE
    /\ fileExists = TRUE
    /\ fileLines \in StoreSamples
    /\ arg = <<>>
    /\ res = <<>>

SpecStore == InitStore /\ [][Next]_vars

(* ------------------ the pure functions, on their own ----------------- *)
BmiInputs == {Rat(n, 1000) : n \in 0..MaxBmiMilli}

InitCategory ==
    /\ Fresh
    /\ arg \in BmiInputs
    /\ res = <<>>

\* bmi_category of the CLI and of the GUI, applied to the same bmi
Classify ==
    /\ res = <<>>
    /\ res' = <<bmi_category_cli(arg), bmi_category_gui(arg)>>
    /\ UNCHANGED <<proc, dirExists, fileExists, fileLines, matplotlib_ok, form,
                   result_text, status, cli, last, appended, arg>>

SpecCategory == InitCategory /\ [][Classify]_vars

GenderInputsBmr ==
    { <<"M">>, <<"M", "a", "l", "e">>, <<"m", " ">>, <<"M", "A", "L", "E">>,
      <<"F">>, <<"F", "e", "m", "a", "l", "e">>, <<>>, <<"x", "y", "z">>, <<" ">>,
      <<" ", "\t", "M">>, <<"f", "m">>, <<"w", "o", "m", "a", "n">> }
WeightInputsBmr == {FromInt(70), Rat(141, 2), Rat(1, 10)}
HeightInputsBmr == {FromInt(175), Rat(3, 2), Rat(1601, 10)}
AgeInputsBmr == {1, 30, 99}

InitBmr ==
    /\ Fresh
    /\ arg \in GenderInputsBmr \X WeightInputsBmr \X HeightInputsBmr \X AgeInputsBmr
    /\ res = <<>>

\* calculate_bmr of the CLI and of the GUI, applied to the same arguments
ComputeBmr ==
    /\ res = <<>>
    /\ res' = <<calculate_bmr(arg[1], arg[2], arg[3], arg[4]),
                calculate_bmr_gui(arg[1], arg[2], arg[3], arg[4])>>
    /\ UNCHANGED <<proc, dirExists, fileExists, fileLines, matplotlib_ok, form,
                   result_text, status, cli, last, appended, arg>>

SpecBmr == InitBmr /\ [][ComputeBmr]_vars

(* ------------------------------ the claims ---------------------------- *)
IsPrefix(a, b) == Len(a) <= Len(b) /\ SubSeq(b, 1, Len(a)) = a
DataRows(lines) == IF lines = <<>> THEN <<>> ELSE Tail(lines)
HeaderLines == {cols, cols \o <<<<"activity">>>>}
HeaderCount(lines) == Cardinality({i \in 1..Len(lines) : lines[i] \in HeaderLines})
ShownIs(op, kind) == last.op = op /\ last.shown # <<>> /\ last.shown[1] = kind

\* C1: starting from a nonexistent history file, after one or more appends by
\* either front end the file holds exactly one header line, and it is the
\* first line; a file that was never appended to does not exist.
C1_OneHeaderFirst ==
    /\ (appended = <<>>) <=> ~fileExists
    /\ ~fileExists => fileLines = <<>>
    /\ appended # <<>> =>
          /\ fileLines[1] \in HeaderLines
          /\ HeaderCount(fileLines) = 1
          /\ Len(fileLines) = Len(appended) + 1

\* C1 witness: two appends, one by each front end, were made to the file.
C1_Witness ==
    /\ Len(appended) = 2
    /\ Len(appended[1]) # Len(appended[2])
    /\ HeaderCount(fileLines) = 1

\* C2: every data row of the file has exactly the fields of the header row,
\* in the same order: the fieldnames each row was written with are the header.
C2_FieldOrderStable ==
    \A i \in 1..Len(appended) :
        /\ Fieldnames(appended[i]) = fileLines[1]
        /\ Len(fileLines[i + 1]) = Len(fileLines[1])

\* C3: the file is append-only: every step leaves the lines that were there as
\* a prefix of the lines after it, never removes the file, and adds exactly
\* one data row when it is a successful save and none otherwise.
C3_AppendOnly ==
    [][ /\ IsPrefix(fileLines, fileLines')
        /\ (fileExists => fileExists')
        /\ IsPrefix(DataRows(fileLines), DataRows(fileLines'))
        /\ IF appended' # appended
           THEN /\ Len(DataRows(fileLines')) = Len(DataRows(fileLines)) + 1
                /\ ShownIs("on_save", "showinfo")' \/ ShownIs("main_save", "print")'
           ELSE fileLines' = fileLines ]_vars

\* C3 witness: a save has just added a row to a file that already held one.
C3_Witness ==
    /\ last.op \in {"on_save", "main_save"}
    /\ Len(appended) = 2
    /\ Len(DataRows(fileLines)) = 2

\* the cell read back stands for the value that was handed to the writer
CellMatches(cell, item) ==
    IF item[2] = "str" THEN cell = item[3]
    ELSE IF item[2] = "int" THEN ParseInt(cell) = [ok |-> TRUE, v |-> item[3]]
    ELSE ParseFloat(cell) = [ok |-> TRUE, v |-> DecValue(item[3])]

\* C4: after N appends to an initially nonexistent store, View History reads
\* back exactly N records in the order of the appends, and every cell read
\* back is the rounded value that was written for that column.
C4_RoundTrip ==
    ShownIs("on_view_history", "table") =>
        LET tbl == last.shown[2]
        IN  /\ Len(tbl) = Len(appended)
            /\ \A i \in 1..Len(tbl) : \A c \in 1..Len(cols) :
                  /\ appended[i][c][1] = cols[c]
                  /\ CellMatches(tbl[i][c], appended[i][c])

\* C4 witness: two different records were read back, one of them the weight
\* 70.25 written and read back as 70.2.
C4_Witness ==
    /\ ShownIs("on_view_history", "table")
    /\ Len(last.shown[2]) = 2
    /\ last.shown[2][1] # last.shown[2][2]
    /\ \E i \in 1..2 : last.shown[2][i][6] = <<"7", "0", ".", "2">>

\* the (timestamp, bmi) pairs of the records whose timestamp and bmi both parse
RECURSIVE WellFormedPairs(_, _)
WellFormedPairs(reader, i) ==
    IF i > Len(reader) THEN <<>>
    ELSE LET r  == reader[i]
             ok == /\ <<"timestamp">> \in DOMAIN r
                   /\ <<"bmi">> \in DOMAIN r
                   /\ Strptime(r[<<"timestamp">>]).ok
                   /\ ParseFloat(r[<<"bmi">>]).ok
         IN  (IF ok THEN <<<<Strptime(r[<<"timestamp">>]).v, ParseFloat(r[<<"bmi">>]).v>>>>
              ELSE <<>>) \o WellFormedPairs(reader, i + 1)

\* C5: the plotted series holds one (timestamp, bmi) pair per well-formed row,
\* in file order, and nothing for a row whose bmi is missing or non-numeric.
C5_MalformedRowSkipped ==
    ShownIs("on_show_chart", "plot") =>
        LET pairs == WellFormedPairs(DictReader(fileLines), 1)
        IN  /\ Len(last.shown[2]) = Len(last.shown[3])
            /\ last.shown[2] = [i \in 1..Len(pairs) |-> pairs[i][1]]
            /\ last.shown[3] = [i \in 1..Len(pairs) |-> pairs[i][2]]

\* C6: whenever a front end calls the metrics engine, age > 0, height > 0,
\* weight > 0 and the multiplier is one of the five activity multipliers.
C6_RangeValidated ==
    last.engine.called =>
        /\ last.engine.age > 0
        /\ Lt(Zero, last.engine.height_m)
        /\ Lt(Zero, last.engine.weight)
        /\ last.engine.mult \in Multipliers

\* the label of the half-open interval holding a bmi given in thousandths
IntervalLabel(milli) ==
    IF milli < 18500 THEN <<"Underweight">>
    ELSE IF milli < 25000 THEN <<"Normal weight">>
    ELSE IF milli < 30000 THEN <<"Overweight">>
    ELSE <<"Obese">>
Milli(x) == (x.n * 1000) \div x.d

\* C7: for every finite non-negative bmi both bmi_category implementations
\* return the label of the half-open interval holding it, never "Unknown".
C7_CategoryIntervals ==
    res # <<>> =>
        /\ res[1] = IntervalLabel(Milli(arg))
        /\ res[2] = IntervalLabel(Milli(arg))
        /\ res[2] # <<"Unknown">>
        /\ arg = Zero => res[1] = <<"Underweight">>
        /\ arg \in {Rat(37, 2), Rat(24999, 1000)} => res[1] = <<"Normal weight">>
        /\ arg \in {FromInt(25), Rat(29999, 1000)} => res[1] = <<"Overweight">>
        /\ arg = FromInt(30) => res[1] = <<"Obese">>

\* C7 witness: both implementations have classified 24.999.
C7_Witness ==
    /\ arg = Rat(24999, 1000)
    /\ res = <<<<"Normal weight">>, <<"Normal weight">>>>

\* the first character that is not whitespace is an m or an M
RECURSIVE LeadsWithM(_)
LeadsWithM(g) ==
    IF g = <<>> THEN FALSE
    ELSE IF g[1] \in Whitespace THEN LeadsWithM(Tail(g))
    ELSE g[1] \in {"m", "M"}

\* 10*weight + 6.25*height - 5*age + 5, in thousandths
MaleMilli(w, h, a) ==
    (10000 * w.n) \div w.d + (6250 * h.n) \div h.d - 5000 * a + 5000

\* C8: calculate_bmr takes the male branch exactly for a gender that, trimmed
\* and lower-cased, starts with "m"; the male result is 10w + 6.25h - 5a + 5
\* and the female result is 166 less.
C8_BmrGender ==
    res # <<>> =>
        LET male   == LeadsWithM(arg[1])
            expect == MaleMilli(arg[2], arg[3], arg[4]) - (IF male THEN 0 ELSE 166000)
        IN  /\ res[1] = Rat(expect, 1000)
            /\ res[2] = Rat(expect, 1000)
            /\ arg[1] \in {<<"M">>, <<"M", "a", "l", "e">>, <<"m", " ">>,
                           <<"M", "A", "L", "E">>} => male
            /\ arg[1] \in {<<"F">>, <<"F", "e", "m", "a", "l", "e">>, <<>>,
                           <<"x", "y", "z">>, <<" ">>} => ~male

\* C8 witness: "MALE" at 70 kg, 175 cm, 30 years gave 1648.75.
C8_Witness ==
    /\ arg = <<<<"M", "A", "L", "E">>, FromInt(70), FromInt(175), 30>>
    /\ res = <<Rat(164875, 100), Rat(164875, 100)>>

\* C9: a Save Entry that is rejected for invalid form inputs leaves the
\* history file as it was: no header, no row, and no file where none was.
C9_RejectedSaveLeavesStore ==
    [][ ShownIs("on_save", "showerror")' =>
            /\ fileExists' = fileExists
            /\ fileLines' = fileLines
            /\ appended' = appended ]_vars

\* C9 witness: a Save Entry was rejected for a value <= 0 while no history
\* file existed, and there is still none.
C9_Witness ==
    /\ ShownIs("on_save", "showerror")
    /\ last.shown[3] = ErrRange
    /\ dirExists
    /\ ~fileExists

\* C10: whatever the Results box shows, a successful Save Entry appends a row
\* whose bmi, category, bmr, tdee and water are the values Calculate would
\* display for the form as it is at the click.
C10_SaveRecomputes ==
    ShownIs("on_save", "showinfo") =>
        LET row == fileLines[Len(fileLines)]
            p   == parse_inputs(form)
            d   == show_results(p, gui_metrics(p))
        IN  /\ p.ok
            /\ ParseFloat(row[7]) = ParseFloat(d[6])
            /\ row[8] = d[7]
            /\ ParseFloat(row[9]) = ParseFloat(d[8])
            /\ ParseFloat(row[10]) = ParseFloat(d[9])
            /\ ParseFloat(row[11]) = ParseFloat(d[10])

\* C10 witness: a second row was saved while the Results box still showed
\* the values Calculate had displayed for another form.
C10_Witness ==
    /\ ShownIs("on_save", "showinfo")
    /\ result_text # <<>>
    /\ result_text # show_results(parse_inputs(form), gui_metrics(parse_inputs(form)))
    /\ Len(appended) = 2

====
